---- MODULE Spec2Model ----
\* Model of create-aleo-app/template-react-zkml/src/workers/worker.js: the
\* worker's module evaluation (lines 16-37, 131-132) and its five remote
\* methods, as JavaScript run-to-completion segments.  Every action is one
\* synchronous segment of the worker; an `await` ends a segment, and the
\* continuation is a later action.
EXTENDS Integers, Sequences, FiniteSets, TLC

\* ---------------------------------------------------------------- bounds
\* Number of remote method calls a behaviour makes through the proxy.
MaxCalls == 2

\* ---------------------------------------------------------------- values
\* A binding that has not been initialised yet.
Undefined == -1
\* Object identity of the module-level AleoKeyProvider / ProgramManager; an
\* object built by call number c of deployProgram has identity c (c >= 1).
ModuleObj == 0

\* Program sources a caller may pass.  Program.fromString throws on a source
\* that does not parse; a parsed program answers id() with its identifier.
\* Strings are sequences of one-character strings.
Sources ==
    { [id |-> <<"a">>, parses |-> TRUE],
      [id |-> <<"a", "b">>, parses |-> TRUE],
      [id |-> <<"?">>, parses |-> FALSE] }

\* The source slot of a call that takes no program source.
NoSource == [id |-> << >>, parses |-> FALSE]

\* Function names a caller may pass.
Functions == { <<"f">>, <<"b", "f">> }

\* The first argument of the module-level fetchKeys call (the prover URL).
ProverUrl == <<"h", ":", "/", "/", "p">>

\* The template literal `${program.id()}/${aleoFunction}`.
CacheKeyNoSeparator(id, aleoFunction) == id \o aleoFunction
CacheKey(id, aleoFunction) == id \o <<"/">> \o aleoFunction

AllCacheKeys ==
    { CacheKey(s.id, f) : s \in { x \in Sources : x.parses }, f \in Functions }

\* const workerMethods = { ... }
WorkerMethodsMissingOne ==
    { "deployProgram", "getPrivateKey", "localProgramExecution", "synthesizeKeys" }
workerMethods ==
    { "deployProgram", "getPrivateKey", "localProgramExecution",
      "synthesizeKeys", "verifyExecution" }

VARIABLES
    pc,              \* position of the module's top-level evaluation
    threadPool,      \* TRUE once initThreadPool() has resolved
    kpHeap,          \* AleoKeyProvider objects: id -> [cacheOption, cache]
    pmHeap,          \* ProgramManager objects: id -> [keyProvider, recordProvider, account]
    keyProvider,     \* module-level const keyProvider (object id)
    programManager,  \* module-level const programManager (object id)
    account,         \* module-level const account
    fetch,           \* state of the promise returned by keyProvider.fetchKeys
    fetchLog,        \* what the .then / .catch handlers logged
    exposed,         \* methods comlink answers for
    calls,           \* remote calls made so far, in order of arrival
    synthesized      \* cache key -> number of key syntheses performed for it

vars == << pc, threadPool, kpHeap, pmHeap, keyProvider, programManager,
           account, fetch, fetchLog, exposed, calls, synthesized >>

\* ------------------------------------------------------------ key provider
\* AleoKeyProvider.containsKeys / cacheKeys on the provider object kp.
containsKeys(heap, kp, key) == key \in DOMAIN heap[kp].cache

cacheKeysDropped(heap, kp, key, keys) == heap
cacheKeys(heap, kp, key, keys) ==
    [heap EXCEPT ![kp].cache =
        [k \in (DOMAIN heap[kp].cache) \cup {key} |->
            IF k = key THEN keys ELSE heap[kp].cache[k]]]

NewKeyProviderObject == [cacheOption |-> FALSE, cache |-> << >>]

Alloc(heap, id, obj) ==
    [k \in (DOMAIN heap) \cup {id} |-> IF k = id THEN obj ELSE heap[k]]

\* ------------------------------------------------------------------- Init
Init ==
    /\ pc = "initThreadPool"
    /\ threadPool = FALSE
    /\ kpHeap = << >>
    /\ pmHeap = << >>
    /\ keyProvider = Undefined
    /\ programManager = Undefined
    /\ account = "undefined"
    /\ fetch = "not started"
    /\ fetchLog = "none"
    /\ exposed = {}
    /\ calls = << >>
    /\ synthesized = [k \in AllCacheKeys |-> 0]

\* ------------------------------------------------- module top level (16-37)
\* await initThreadPool();
InitThreadPoolResolves ==
    /\ pc = "initThreadPool"
    /\ threadPool' = TRUE
    /\ pc' = "newKeyProvider"
    /\ UNCHANGED << kpHeap, pmHeap, keyProvider, programManager, account,
                    fetch, fetchLog, exposed, calls, synthesized >>

\* The awaited promise rejects: module evaluation fails, nothing below runs.
InitThreadPoolRejects ==
    /\ pc = "initThreadPool"
    /\ pc' = "failed"
    /\ UNCHANGED << threadPool, kpHeap, pmHeap, keyProvider, programManager,
                    account, fetch, fetchLog, exposed, calls, synthesized >>

\* const keyProvider = new AleoKeyProvider();
NewKeyProvider ==
    /\ pc = "newKeyProvider"
    /\ kpHeap' = Alloc(kpHeap, ModuleObj, NewKeyProviderObject)
    /\ keyProvider' = ModuleObj
    /\ pc' = "useCache1"
    /\ UNCHANGED << threadPool, pmHeap, programManager, account, fetch,
                    fetchLog, exposed, calls, synthesized >>

\* keyProvider.useCache(true);   (line 22)
UseCacheSkipped ==
    /\ pc = "useCache1"
    /\ pc' = "fetchKeys"
    /\ UNCHANGED << threadPool, kpHeap, pmHeap, keyProvider, programManager,
                    account, fetch, fetchLog, exposed, calls, synthesized >>
UseCache ==
    /\ pc = "useCache1"
    /\ kpHeap' = [kpHeap EXCEPT ![keyProvider].cacheOption = TRUE]
    /\ pc' = "fetchKeys"
    /\ UNCHANGED << threadPool, pmHeap, keyProvider, programManager, account,
                    fetch, fetchLog, exposed, calls, synthesized >>

\* keyProvider.fetchKeys(prover, verifier).then(...).catch(...);  not awaited
FetchKeysAwaited ==
    /\ pc = "fetchKeys"
    /\ fetch' = "pending"
    /\ pc' = "awaitFetchKeys"
    /\ UNCHANGED << threadPool, kpHeap, pmHeap, keyProvider, programManager,
                    account, fetchLog, exposed, calls, synthesized >>
FetchKeys ==
    /\ pc = "fetchKeys"
    /\ fetch' = "pending"
    /\ pc' = "useCache2"
    /\ UNCHANGED << threadPool, kpHeap, pmHeap, keyProvider, programManager,
                    account, fetchLog, exposed, calls, synthesized >>

\* keyProvider.useCache(true);   (line 34)
UseCacheAgain ==
    /\ pc = "useCache2"
    /\ kpHeap' = [kpHeap EXCEPT ![keyProvider].cacheOption = TRUE]
    /\ pc' = "newProgramManager"
    /\ UNCHANGED << threadPool, pmHeap, keyProvider, programManager, account,
                    fetch, fetchLog, exposed, calls, synthesized >>

\* const programManager = new ProgramManager(host, keyProvider, undefined);
NewProgramManager ==
    /\ pc = "newProgramManager"
    /\ pmHeap' = Alloc(pmHeap, ModuleObj,
                       [keyProvider |-> keyProvider,
                        recordProvider |-> Undefined,
                        account |-> "undefined"])
    /\ programManager' = ModuleObj
    /\ pc' = "newAccount"
    /\ UNCHANGED << threadPool, kpHeap, keyProvider, account, fetch,
                    fetchLog, exposed, calls, synthesized >>

\* const account = new Account();
NewAccount ==
    /\ pc = "newAccount"
    /\ account' = "moduleAccount"
    /\ pc' = "setAccount"
    /\ UNCHANGED << threadPool, kpHeap, pmHeap, keyProvider, programManager,
                    fetch, fetchLog, exposed, calls, synthesized >>

\* programManager.setAccount(account);
SetAccount ==
    /\ pc = "setAccount"
    /\ pmHeap' = [pmHeap EXCEPT ![programManager].account = account]
    /\ pc' = "expose"
    /\ UNCHANGED << threadPool, kpHeap, keyProvider, programManager, account,
                    fetch, fetchLog, exposed, calls, synthesized >>

\* expose(workerMethods);
Expose ==
    /\ pc = "expose"
    /\ exposed' = workerMethods
    /\ pc' = "done"
    /\ UNCHANGED << threadPool, kpHeap, pmHeap, keyProvider, programManager,
                    account, fetch, fetchLog, calls, synthesized >>

\* ---------------------------------------------- fetchKeys promise (25-32)
\* The promise settles in a later task than the module's synchronous
\* evaluation, which runs to completion through expose() first.
\* AleoKeyProvider.fetchKeys stores the fetched pair under the prover URL
\* when caching is enabled.
fetchKeysStores(heap, kp) ==
    IF heap[kp].cacheOption
    THEN cacheKeys(heap, kp, ProverUrl, [for |-> ProverUrl, from |-> "fetchKeys"])
    ELSE heap

\* .then(() => console.log("Keys fetched successfully"))
FetchKeysResolves ==
    /\ pc = "done"
    /\ fetch = "pending"
    /\ fetch' = "resolved"
    /\ fetchLog' = "Keys fetched successfully"
    /\ kpHeap' = fetchKeysStores(kpHeap, keyProvider)
    /\ UNCHANGED << pc, threadPool, pmHeap, keyProvider, programManager,
                    account, exposed, calls, synthesized >>

\* .catch(error => console.error("Error fetching keys: ", error))
FetchKeysRejects ==
    /\ pc = "done"
    /\ fetch = "pending"
    /\ fetch' = "rejected"
    /\ fetchLog' = "Error fetching keys"
    /\ UNCHANGED << pc, threadPool, kpHeap, pmHeap, keyProvider,
                    programManager, account, exposed, calls, synthesized >>

\* ----------------------------------------------------------- remote calls
\* comlink dispatches a message to a method only once expose() has run and
\* only for a property of the exposed object.
CanCall(method) ==
    /\ method \in exposed
    /\ Len(calls) < MaxCalls

Call(method, status, source, fn) ==
    [ op |-> method, status |-> status, source |-> source, fn |-> fn,
      cacheKey |-> << >>, cacheFunctionKeys |-> FALSE, keysFound |-> FALSE,
      pm |-> Undefined ]

Awaiting(c, method) ==
    /\ c \in DOMAIN calls
    /\ calls[c].op = method
    /\ calls[c].status = "awaiting"

Settle(c, status) == [calls EXCEPT ![c].status = status]

Bump(key) == [synthesized EXCEPT ![key] = @ + 1]

\* -------------------------------------------------- synthesizeKeys (39-45)
\* Line 40 throws, or line 41 calls programManager.synthesizeKeys and awaits.
synthesizeKeys_call(source, fn) ==
    /\ CanCall("synthesizeKeys")
    /\ calls' = Append(calls,
                  IF source.parses
                  THEN [Call("synthesizeKeys", "awaiting", source, fn)
                          EXCEPT !.pm = programManager]
                  ELSE Call("synthesizeKeys", "rejected", source, fn))
    /\ UNCHANGED << pc, threadPool, kpHeap, pmHeap, keyProvider,
                    programManager, account, fetch, fetchLog, exposed,
                    synthesized >>

\* Lines 42-44: the awaited synthesis resolved with a key pair.
synthesizeKeys_resolve(c) ==
    /\ Awaiting(c, "synthesizeKeys")
    /\ LET key == CacheKey(calls[c].source.id, calls[c].fn)
           keys == [for |-> << calls[c].source.id, calls[c].fn >>,
                    from |-> "synthesizeKeys"]
       IN /\ synthesized' = Bump(key)
          /\ kpHeap' = cacheKeys(kpHeap, pmHeap[programManager].keyProvider,
                                 key, keys)
          /\ calls' = [calls EXCEPT ![c].status = "resolved",
                                    ![c].cacheKey = key]
    /\ UNCHANGED << pc, threadPool, pmHeap, keyProvider, programManager,
                    account, fetch, fetchLog, exposed >>

\* The awaited synthesis rejected: lines 42-44 never run.
synthesizeKeys_reject(c) ==
    /\ Awaiting(c, "synthesizeKeys")
    /\ calls' = Settle(c, "rejected")
    /\ UNCHANGED << pc, threadPool, kpHeap, pmHeap, keyProvider,
                    programManager, account, fetch, fetchLog, exposed,
                    synthesized >>

\* ------------------------------------------- localProgramExecution (47-83)
\* ProgramManager.executeOffline looks the keys up through its key provider
\* with keySearchParams before it returns its promise.
executeOfflineFindsKeys(pm, key) ==
    containsKeys(kpHeap, pmHeap[pm].keyProvider, key)

\* Lines 48-67: parse, compute the cache key, test the cache, start
\* executeOffline and await it.
cacheFunctionKeysAlways(key) == TRUE
cacheFunctionKeysAt(key) ==
    ~ containsKeys(kpHeap, pmHeap[programManager].keyProvider, key)

localProgramExecution_call(source, fn) ==
    /\ CanCall("localProgramExecution")
    /\ calls' = Append(calls,
                  IF source.parses
                  THEN LET key == CacheKey(source.id, fn)
                       IN [Call("localProgramExecution", "awaiting", source, fn)
                             EXCEPT !.cacheKey = key,
                                    !.cacheFunctionKeys = cacheFunctionKeysAt(key),
                                    !.keysFound =
                                        executeOfflineFindsKeys(programManager, key),
                                    !.pm = programManager]
                  ELSE Call("localProgramExecution", "rejected", source, fn))
    /\ UNCHANGED << pc, threadPool, kpHeap, pmHeap, keyProvider,
                    programManager, account, fetch, fetchLog, exposed,
                    synthesized >>

\* Lines 68-82: executeOffline resolved.
localProgramExecution_resolve(c) ==
    /\ Awaiting(c, "localProgramExecution")
    /\ LET key == calls[c].cacheKey
           keys == [for |-> << calls[c].source.id, calls[c].fn >>,
                    from |-> "executionResponse"]
       IN /\ synthesized' = IF calls[c].keysFound THEN synthesized ELSE Bump(key)
          /\ kpHeap' = IF calls[c].cacheFunctionKeys
                       THEN cacheKeys(kpHeap, pmHeap[programManager].keyProvider,
                                      key, keys)
                       ELSE kpHeap
    /\ calls' = Settle(c, "resolved")
    /\ UNCHANGED << pc, threadPool, pmHeap, keyProvider, programManager,
                    account, fetch, fetchLog, exposed >>

\* executeOffline rejected (line 56 throws at the await).
localProgramExecution_rejectCaches(c) ==
    /\ Awaiting(c, "localProgramExecution")
    /\ calls' = Settle(c, "rejected")
    /\ kpHeap' = cacheKeys(kpHeap, pmHeap[programManager].keyProvider,
                           calls[c].cacheKey,
                           [for |-> << calls[c].source.id, calls[c].fn >>,
                            from |-> "executionResponse"])
    /\ UNCHANGED << pc, threadPool, pmHeap, keyProvider, programManager,
                    account, fetch, fetchLog, exposed, synthesized >>
localProgramExecution_reject(c) ==
    /\ Awaiting(c, "localProgramExecution")
    /\ calls' = Settle(c, "rejected")
    /\ UNCHANGED << pc, threadPool, kpHeap, pmHeap, keyProvider,
                    programManager, account, fetch, fetchLog, exposed,
                    synthesized >>

\* --------------------------------------------------- getPrivateKey (85-88)
getPrivateKey_call ==
    /\ CanCall("getPrivateKey")
    /\ calls' = Append(calls, Call("getPrivateKey", "resolved", NoSource, << >>))
    /\ UNCHANGED << pc, threadPool, kpHeap, pmHeap, keyProvider,
                    programManager, account, fetch, fetchLog, exposed,
                    synthesized >>

\* ------------------------------------------------- verifyExecution (90-93)
\* ExecutionResponse.fromString throws on a string that is no execution;
\* otherwise the call returns what programManager.verifyExecution returns.
verifyExecution_call(execution_parses) ==
    /\ CanCall("verifyExecution")
    /\ calls' = Append(calls,
                  IF execution_parses
                  THEN [Call("verifyExecution", "resolved", NoSource, << >>)
                          EXCEPT !.pm = programManager]
                  ELSE Call("verifyExecution", "rejected", NoSource, << >>))
    /\ UNCHANGED << pc, threadPool, kpHeap, pmHeap, keyProvider,
                    programManager, account, fetch, fetchLog, exposed,
                    synthesized >>

\* --------------------------------------------------- deployProgram (95-129)
\* The fee keys ProgramManager.deploy fetches go through its key provider.
FeeKey == <<"f", "e", "e">>

\* The key provider handed to the ProgramManager built on lines 110-114: the
\* function's own `keyProvider` (line 96), which shadows the module's.
deployKeyProviderShared(c) == keyProvider
deployKeyProvider(c) == c

\* Lines 96-122: build the call's own objects, start deploy and await it.
deployProgram_call(source) ==
    /\ CanCall("deployProgram")
    /\ LET c == Len(calls) + 1
       IN /\ kpHeap' = Alloc(kpHeap, c,
                             [NewKeyProviderObject EXCEPT !.cacheOption = TRUE])
          /\ pmHeap' = Alloc(pmHeap, c,
                             [keyProvider |-> deployKeyProvider(c),
                              recordProvider |-> c,
                              account |-> "user1PrivateKey"])
          /\ calls' = Append(calls,
                        [Call("deployProgram", "awaiting", source, << >>)
                           EXCEPT !.pm = c])
    /\ UNCHANGED << pc, threadPool, keyProvider, programManager, account,
                    fetch, fetchLog, exposed, synthesized >>

\* Line 128: deploy resolved with a transaction id.
deployProgram_resolve(c) ==
    /\ Awaiting(c, "deployProgram")
    /\ kpHeap' = cacheKeys(kpHeap, pmHeap[calls[c].pm].keyProvider, FeeKey,
                           [for |-> FeeKey, from |-> "deploy"])
    /\ calls' = Settle(c, "resolved")
    /\ UNCHANGED << pc, threadPool, pmHeap, keyProvider, programManager,
                    account, fetch, fetchLog, exposed, synthesized >>

\* deploy rejected.
deployProgram_reject(c) ==
    /\ Awaiting(c, "deployProgram")
    /\ calls' = Settle(c, "rejected")
    /\ UNCHANGED << pc, threadPool, kpHeap, pmHeap, keyProvider,
                    programManager, account, fetch, fetchLog, exposed,
                    synthesized >>

CallIds == 1..MaxCalls

Next ==
    \/ InitThreadPoolResolves
    \/ InitThreadPoolRejects
    \/ NewKeyProvider
    \/ UseCache
    \/ FetchKeys
    \/ UseCacheAgain
    \/ NewProgramManager
    \/ NewAccount
    \/ SetAccount
    \/ Expose
    \/ FetchKeysResolves
    \/ FetchKeysRejects
    \/ \E s \in Sources, f \in Functions : synthesizeKeys_call(s, f)
    \/ \E c \in CallIds : synthesizeKeys_resolve(c)
    \/ \E c \in CallIds : synthesizeKeys_reject(c)
    \/ \E s \in Sources, f \in Functions : localProgramExecution_call(s, f)
    \/ \E c \in CallIds : localProgramExecution_resolve(c)
    \/ \E c \in CallIds : localProgramExecution_reject(c)
    \/ getPrivateKey_call
    \/ \E e \in BOOLEAN : verifyExecution_call(e)
    \/ \E s \in Sources : deployProgram_call(s)
    \/ \E c \in CallIds : deployProgram_resolve(c)
    \/ \E c \in CallIds : deployProgram_reject(c)

Spec == Init /\ [][Next]_vars

\* ================================================================ claims
\* The cache of the key provider the module-level ProgramManager holds.
ModuleCache == kpHeap[pmHeap[programManager].keyProvider].cache
IsNew(c) == c \notin DOMAIN calls
Of(c, method) == calls'[c].op = method
Started(c, method) == IsNew(c) /\ Of(c, method)
Settled(c, method, status) ==
    /\ ~ IsNew(c) /\ Of(c, method)
    /\ calls[c].status = "awaiting" /\ calls'[c].status = status
PairOf(call) == << call.source.id, call.fn >>

\* C1: for every cache key, over any interleaving of synthesizeKeys and
\* localProgramExecution calls, keys for that key are synthesized at most once.
C1_AtMostOneSynthesisPerKey ==
    \A k \in AllCacheKeys : synthesized[k] <= 1

\* What C2 requires of one step.
C2_Step ==
    /\ \A c, d \in DOMAIN calls' :
          (calls'[c].cacheKey # << >> /\ calls'[d].cacheKey # << >>)
          => ((calls'[c].cacheKey = calls'[d].cacheKey)
                <=> (PairOf(calls'[c]) = PairOf(calls'[d])))
    /\ \A c \in DOMAIN calls' :
          (Started(c, "localProgramExecution") /\ calls'[c].status = "awaiting")
          => /\ (\E d \in DOMAIN calls :
                    /\ calls[d].op = "synthesizeKeys"
                    /\ calls[d].status = "resolved"
                    /\ PairOf(calls[d]) = PairOf(calls'[c]))
                => ~ calls'[c].cacheFunctionKeys
             /\ ~ calls'[c].cacheFunctionKeys
                => /\ calls'[c].cacheKey \in DOMAIN ModuleCache
                   /\ ModuleCache[calls'[c].cacheKey].for = PairOf(calls'[c])
\* C2: synthesizeKeys and localProgramExecution compute the same cache key
\* for the same program and function and different keys for different
\* (program id, function) pairs; a localProgramExecution(p, f) that starts
\* after a synthesizeKeys(p, f) resolved finds the keys (cacheFunctionKeys
\* stays false); and the keys a localProgramExecution finds are the keys
\* stored for its own (program id, function) pair.
C2_KeyedByProgramAndFunction == [][C2_Step]_vars

\* A synthesizeKeys(p, f) resolved and a later localProgramExecution(p, f)
\* found its keys.
C2_Witness ==
    \E d, c \in DOMAIN calls :
        /\ d < c
        /\ calls[d].op = "synthesizeKeys" /\ calls[d].status = "resolved"
        /\ calls[c].op = "localProgramExecution"
        /\ calls[c].status = "resolved"
        /\ ~ calls[c].cacheFunctionKeys
        /\ calls[c].cacheKey = calls[d].cacheKey

\* What C3 requires of one step.
C3_Step ==
    /\ exposed' \in { {}, { "deployProgram", "getPrivateKey",
                            "localProgramExecution", "synthesizeKeys",
                            "verifyExecution" } }
    /\ pc' = "done" => Cardinality(exposed') = 5
    /\ pc = "done" => exposed' = exposed
    /\ \A c \in DOMAIN calls' : calls'[c].op \in exposed'
\* C3: the worker exposes exactly deployProgram, getPrivateKey,
\* localProgramExecution, synthesizeKeys and verifyExecution, and the set of
\* exposed methods never changes once expose has been called.
C3_ExactlyFiveMethods == [][C3_Step]_vars

\* expose has run and calls have been answered.
C3_Witness ==
    /\ pc = "done"
    /\ Cardinality(exposed) = 5
    /\ Len(calls) = MaxCalls

\* C5: initThreadPool has completed before the key provider exists; caching
\* is enabled before fetchKeys starts and before the ProgramManager is built
\* on the key provider; the account is set on the ProgramManager before
\* expose; so no method runs before all three.
C5_StartupOrder ==
    /\ keyProvider # Undefined => threadPool
    /\ fetch # "not started" => kpHeap[keyProvider].cacheOption
    /\ programManager # Undefined
         => /\ pmHeap[programManager].keyProvider = keyProvider
            /\ kpHeap[keyProvider].cacheOption
    /\ (exposed # {} \/ calls # << >>)
         => /\ threadPool
            /\ kpHeap[pmHeap[programManager].keyProvider].cacheOption
            /\ account # "undefined"
            /\ pmHeap[programManager].account = account

\* A worker method has run.
C5_Witness ==
    /\ calls # << >>
    /\ threadPool
    /\ pmHeap[programManager].account = "moduleAccount"

\* C6: after a localProgramExecution(p, f, inputs) that resolved, the module
\* key cache holds keys under <program.id()>/<f>.
C6_CachedAfterExecution ==
    \A c \in DOMAIN calls :
        (calls[c].op = "localProgramExecution" /\ calls[c].status = "resolved")
        => /\ calls[c].cacheKey = calls[c].source.id \o <<"/">> \o calls[c].fn
           /\ calls[c].cacheKey \in DOMAIN ModuleCache

\* One execution resolved after a miss and one after a hit.
C6_Witness ==
    \E c, d \in DOMAIN calls :
        /\ calls[c].op = "localProgramExecution" /\ calls[c].status = "resolved"
        /\ calls[d].op = "localProgramExecution" /\ calls[d].status = "resolved"
        /\ calls[c].cacheFunctionKeys /\ ~ calls[d].cacheFunctionKeys

\* What C7 requires of one step.
C7_Step ==
    \A c \in DOMAIN calls' :
        /\ Started(c, "localProgramExecution")
           => /\ kpHeap' = kpHeap
              /\ calls'[c].status = "awaiting"
                 => (calls'[c].cacheFunctionKeys
                       <=> calls'[c].cacheKey \notin DOMAIN ModuleCache)
        /\ Settled(c, "localProgramExecution", "rejected") => kpHeap' = kpHeap
        /\ Settled(c, "localProgramExecution", "resolved")
           => IF calls[c].cacheFunctionKeys
              THEN /\ DOMAIN ModuleCache' = DOMAIN ModuleCache \cup {calls[c].cacheKey}
                   /\ ModuleCache'[calls[c].cacheKey]
                        = [for |-> PairOf(calls[c]), from |-> "executionResponse"]
                   /\ \A k \in DOMAIN ModuleCache \ {calls[c].cacheKey} :
                         ModuleCache'[k] = ModuleCache[k]
              ELSE kpHeap' = kpHeap
\* C7: localProgramExecution passes cacheFunctionKeys = true exactly when the
\* cache lacks its key as the call begins; when its executeOffline resolves
\* it stores the execution response's keys under that key if the flag is
\* true, overwriting what was stored meanwhile, and touches nothing else;
\* with the flag false, and on every other step of the call, it leaves the
\* cache unchanged.
C7_WritesIffMissAtEntry == [][C7_Step]_vars

\* An execution that missed at entry stored its keys over the keys a
\* synthesizeKeys call stored for the same key in the meantime.
C7_Witness ==
    \E c, d \in DOMAIN calls :
        /\ calls[c].op = "localProgramExecution" /\ calls[c].status = "resolved"
        /\ calls[c].cacheFunctionKeys
        /\ calls[d].op = "synthesizeKeys" /\ calls[d].status = "resolved"
        /\ calls[d].cacheKey = calls[c].cacheKey
        /\ ModuleCache[calls[c].cacheKey].from = "executionResponse"

\* What C8 requires of one step.
C8_Step ==
    \A c \in DOMAIN calls' :
        ( /\ calls'[c].op \in {"localProgramExecution", "synthesizeKeys"}
          /\ calls'[c].status = "rejected"
          /\ (IsNew(c) \/ calls[c].status # "rejected") )
        => kpHeap' = kpHeap
ModuleEvaluationStep ==
    UseCacheAgain \/ NewProgramManager \/ NewAccount \/ SetAccount \/ Expose
\* What C9 requires of one state.
C9_State ==
    /\ (fetch = "pending" /\ pc # "done") => ENABLED ModuleEvaluationStep
    /\ pc = "done" => /\ exposed = workerMethods
                      /\ fetch \in {"pending", "resolved", "rejected"}
    /\ (pc = "done" /\ Len(calls) < MaxCalls) => ENABLED getPrivateKey_call
    /\ fetch = "rejected" => fetchLog = "Error fetching keys"
\* What C9 requires of one step.
C9_Step ==
    /\ C9_State'
    /\ fetch' # fetch /\ fetch # "not started"
         => /\ exposed' = exposed /\ exposed = workerMethods
            /\ calls' = calls /\ pc' = pc /\ pmHeap' = pmHeap
\* C9: the fetchKeys promise is not awaited and its rejection is not fatal:
\* while it is pending the module evaluation goes on to expose; its settling
\* changes neither the exposure nor any call; a rejection is logged; and
\* after expose a method can be called whatever the state of the promise.
C9_FetchNeitherAwaitedNorFatal == [][C9_Step]_vars

\* A method is running while the fetch is still pending.
C9_Witness ==
    /\ fetch = "pending"
    /\ exposed = workerMethods
    /\ \E c \in DOMAIN calls : calls[c].status = "awaiting"

\* What C10 requires of one step.
C10_Step ==
    /\ \A c \in DOMAIN calls' :
          calls'[c].op = "deployProgram"
          => /\ calls'[c].pm # programManager'
             /\ pmHeap'[calls'[c].pm].keyProvider # pmHeap'[programManager'].keyProvider
             /\ IsNew(c) => kpHeap'[pmHeap'[calls'[c].pm].keyProvider].cache = << >>
             /\ (IsNew(c) \/ calls'[c] # calls[c])
                => /\ pmHeap'[programManager'] = pmHeap[programManager]
                   /\ ModuleCache' = ModuleCache
                   /\ kpHeap'[keyProvider'] = kpHeap[keyProvider]
                   /\ << programManager', keyProvider', account' >>
                        = << programManager, keyProvider, account >>
    /\ exposed' # {} => FeeKey \notin DOMAIN ModuleCache'
\* C10: a deployProgram call builds its own key provider and ProgramManager;
\* none of its steps changes the module-level ProgramManager, its account or
\* its key cache; its key provider starts empty, so keys cached by
\* synthesizeKeys or localProgramExecution are not visible to it; and what
\* it caches does not reach the module-level cache.
C10_DeployIsolated == [][C10_Step]_vars

\* A deployProgram resolved, having cached in its own provider, while the
\* module cache holds keys another call stored.
C10_Witness ==
    \E c, d \in DOMAIN calls :
        /\ calls[c].op = "deployProgram" /\ calls[c].status = "resolved"
        /\ FeeKey \in DOMAIN kpHeap[pmHeap[calls[c].pm].keyProvider].cache
        /\ d < c
        /\ calls[d].status = "resolved"
        /\ calls[d].cacheKey \in DOMAIN ModuleCache
        /\ calls[d].cacheKey \notin DOMAIN kpHeap[pmHeap[calls[c].pm].keyProvider].cache
====
